---- MODULE Spec2Model ----
(***************************************************************************)
(* Resized artwork reader of navidrome (core/artwork/reader_resized.go):   *)
(* the cache key, the Reader facade with its fallback to the original, the *)
(* resize/encode pipeline, the lossless detector and the quality estimator.*)
(***************************************************************************)
EXTENDS Integers, Sequences, FiniteSets, TLC

VARIABLES
    conf,       \* conf.Server: CoverArtFormat, CoverArtMinQuality, CoverArtMaxQuality
    qm,         \* quality estimator: the effective bound m under study
    qcalls,     \* quality estimator: the last two calls, oldest first: [n, m, q]
    larg,       \* lossless detector: the arguments of the call, <<[format, originalBytes, bounds, header]>>
    lcall,      \* lossless detector: the call made, <<[format, originalBytes, bounds, header, result]>>
    rdrs,       \* cache keys: the readers constructed, rdrs[i] = <<>> or <<resizedArtworkReader>>
    keys,       \* cache keys: keys[i] = <<>> or <<[key, format]>>, the last Key() of reader i
                \*             and conf.Server.CoverArtFormat when it was called
    self,       \* Reader: its receiver, <<[artID, size, square]>>
    original,   \* Reader: the original artwork the store holds for self.artID
    pc,         \* Reader: "start", "fetched", "fallback" or "done"
    gets,       \* Reader: the outcome of each a.a.Get so far, "ok" or "err"
    streams,    \* Reader: the streams a.a.Get opened, each with its count of Close calls
    orig,       \* Reader: the local variable orig, a stream index (0: nil)
    deferred,   \* Reader: the receivers of the deferred Close calls
    pipe,       \* Reader: <<>> or <<what resizeImage returned and did>>
    ret         \* Reader: <<>> or <<[reader, disc, err]>>, what Reader returned

qualityVars == <<qm, qcalls>>
losslessVars == <<larg, lcall>>
keyVars == <<rdrs, keys>>
readerVars == <<self, original, pc, gets, streams, orig, deferred, pipe, ret>>
vars == <<conf, qualityVars, losslessVars, keyVars, readerVars>>

(***************************************************************************)
(* Bounds of the model.                                                    *)
(***************************************************************************)
SizeBelow == 2      \* sizes from SmallSizeLimit - SizeBelow ...
SizeAbove == 10     \* ... to SmallSizeLimit + SizeAbove
MaxDim == 3         \* lossless detector: corner coordinates 0..MaxDim
MaxBytes == 6       \* lossless detector: originalBytes 1..MaxBytes
ReaderSpan == 1     \* Reader: sizes and image sides SmallSizeLimit +- ReaderSpan

(***************************************************************************)
(* Program constants.                                                      *)
(***************************************************************************)
SmallSizeLimit == 300   \* qualityBySize: n < 300
MantissaBits == 53      \* float64 significand, hidden bit included

Min2(a, b) == IF a < b THEN a ELSE b
Max2(a, b) == IF a > b THEN a ELSE b

(***************************************************************************)
(* float64 arithmetic on the non-negative values qualityBySize computes.   *)
(* A value is [m |-> bits, e |-> exponent]: bits is the significand as a   *)
(* binary numeral, most significant bit first, no leading zero (<<>> is    *)
(* zero); the value is bits * 2^e. Every operation rounds the exact result *)
(* to 53 significant bits, ties to even, as IEEE 754 does.                 *)
(***************************************************************************)
\* k < 2^w as a numeral of exactly w bits
FixBits(k, w) == [i \in 1..w |-> (k \div 2^(w - i)) % 2]

\* The numeral without its leading zeros
Strip(bits) ==
    IF \A i \in 1..Len(bits) : bits[i] = 0 THEN <<>>
    ELSE LET p == CHOOSE i \in 1..Len(bits) :
                      bits[i] = 1 /\ \A j \in 1..(i - 1) : bits[j] = 0
         IN SubSeq(bits, p, Len(bits))

\* k < 2^30 as a numeral
IntBits(k) == Strip(FixBits(k, 30))

\* The value of a numeral of at most 30 bits
RECURSIVE BitsInt(_)
BitsInt(bits) ==
    IF bits = <<>> THEN 0
    ELSE 2 * BitsInt(SubSeq(bits, 1, Len(bits) - 1)) + bits[Len(bits)]

Zeros(k) == [i \in 1..k |-> 0]

\* bits + 1: the last 0 becomes 1 and the 1s after it become 0
Inc(bits) ==
    LET L == Len(bits) IN
    IF \A i \in 1..L : bits[i] = 1 THEN <<1>> \o Zeros(L)
    ELSE LET p == CHOOSE i \in 1..L :
                      bits[i] = 0 /\ \A j \in (i + 1)..L : bits[j] = 1
         IN SubSeq(bits, 1, p - 1) \o <<1>> \o Zeros(L - p)

\* Round a significand of any length to MantissaBits bits, ties to even.
\* sticky: the exact value has non-zero bits below those of `bits`.
Round53(bits, e, sticky) ==
    LET L == Len(bits) IN
    IF L <= MantissaBits THEN [m |-> bits, e |-> e]
    ELSE LET keep  == SubSeq(bits, 1, MantissaBits)
             guard == bits[MantissaBits + 1]
             rest  == sticky \/ \E i \in (MantissaBits + 2)..L : bits[i] = 1
             up    == guard = 1 /\ (rest \/ keep[MantissaBits] = 1)
         IN [m |-> IF up THEN Inc(keep) ELSE keep, e |-> e + (L - MantissaBits)]

\* The binary digits of rem/d after the point, 16 at a time, n times:
\* <<digits, remainder>>. rem < d < 2^15.
RECURSIVE FracBits(_, _, _)
FracBits(rem, d, n) ==
    IF n = 0 THEN <<<<>>, rem>>
    ELSE LET t    == rem * 65536
             rest == FracBits(t % d, d, n - 1)
         IN <<FixBits(t \div d, 16) \o rest[1], rest[2]>>

\* float64(k) / float64(d), 0 <= k, 0 < d < 2^15: 80 digits after the point
\* hold more than MantissaBits + 2 significant ones.
FDiv(k, d) ==
    IF k = 0 THEN [m |-> <<>>, e |-> 0]
    ELSE LET f == FracBits(k % d, d, 5)
         IN Round53(Strip(IntBits(k \div d) \o f[1]), 0 - 80, f[2] # 0)

\* bits * k + carry, 16 bits at a time from the right, k < 2^14
RECURSIVE MulBits(_, _, _)
MulBits(bits, k, carry) ==
    IF bits = <<>> THEN IntBits(carry)
    ELSE LET L == Len(bits)
             w == IF L < 16 THEN L ELSE 16
             t == BitsInt(SubSeq(bits, L - w + 1, L)) * k + carry
         IN MulBits(SubSeq(bits, 1, L - w), k, t \div 2^w) \o FixBits(t % 2^w, w)

\* x * float64(k), 0 <= k < 2^14
FMulInt(x, k) == Round53(Strip(MulBits(x.m, k, 0)), x.e, FALSE)

\* float64(k) + x, k >= 0 and x < 2^14: k is added to the integer part of x
FAddInt(k, x) ==
    IF x.e >= 0 THEN [m |-> IntBits(k + BitsInt(x.m) * 2^(x.e)), e |-> 0]
    ELSE LET nInt == Len(x.m) + x.e
             top  == IF nInt > 0 THEN BitsInt(SubSeq(x.m, 1, nInt)) ELSE 0
             low  == IF nInt >= 0 THEN SubSeq(x.m, nInt + 1, Len(x.m))
                     ELSE Zeros(0 - nInt) \o x.m
         IN Round53(Strip(IntBits(top + k) \o low), x.e, FALSE)

\* int(x): the conversion truncates
FTrunc(x) ==
    IF x.e >= 0 THEN BitsInt(x.m) * 2^(x.e)
    ELSE IF Len(x.m) + x.e <= 0 THEN 0
    ELSE BitsInt(SubSeq(x.m, 1, Len(x.m) + x.e))

(***************************************************************************)
(* qualityBySize (lines 143-161), for 0 <= CoverArtMinQuality <=           *)
(* CoverArtMaxQuality.                                                     *)
(***************************************************************************)
\* n <= 300 takes the small-size branch
qualityBySizeAtLimit(n, m) ==
    IF n <= SmallSizeLimit THEN conf.CoverArtMinQuality
    ELSE IF n >= m THEN conf.CoverArtMaxQuality
    ELSE LET ratio == FDiv(n - SmallSizeLimit, m - SmallSizeLimit)
             span  == conf.CoverArtMaxQuality - conf.CoverArtMinQuality
         IN FTrunc(FAddInt(conf.CoverArtMinQuality, FMulInt(ratio, span)))

\* n >= m returns the minimum quality
qualityBySizeSwapped(n, m) ==
    IF n < SmallSizeLimit THEN conf.CoverArtMinQuality
    ELSE IF n >= m THEN conf.CoverArtMinQuality
    ELSE LET ratio == FDiv(n - SmallSizeLimit, m - SmallSizeLimit)
             span  == conf.CoverArtMaxQuality - conf.CoverArtMinQuality
         IN FTrunc(FAddInt(conf.CoverArtMinQuality, FMulInt(ratio, span)))

qualityBySize(n, m) ==
    IF n < SmallSizeLimit THEN conf.CoverArtMinQuality
    ELSE IF n >= m THEN conf.CoverArtMaxQuality
    ELSE LET ratio == FDiv(n - SmallSizeLimit, m - SmallSizeLimit)
             span  == conf.CoverArtMaxQuality - conf.CoverArtMinQuality
         IN FTrunc(FAddInt(conf.CoverArtMinQuality, FMulInt(ratio, span)))

(***************************************************************************)
(* Configuration (conf.Server). The output format is one of the formats    *)
(* resizeImage has an encoder for; the quality bounds are integers with    *)
(* 0 <= min <= max.                                                        *)
(***************************************************************************)
Formats == {"png", "jpeg", "webp", "avif", "jxl"}
QualityPairs == {<<0, 90>>, <<60, 90>>, <<75, 75>>, <<1, 100>>}
Confs ==
    {[CoverArtFormat |-> f, CoverArtMinQuality |-> p[1], CoverArtMaxQuality |-> p[2]] :
        f \in Formats, p \in QualityPairs}
\* the format plays no part in qualityBySize, the quality bounds none in Key
QualityConfs == {c \in Confs : c.CoverArtFormat = "webp"}
FormatConfs == {c \in Confs : c.CoverArtMinQuality = 60 /\ c.CoverArtMaxQuality = 90}
AnyConf == CHOOSE c \in Confs : TRUE

Sizes == (SmallSizeLimit - SizeBelow)..(SmallSizeLimit + SizeAbove)

(***************************************************************************)
(* shouldEncodeLossless (lines 89-130). Strings are byte sequences.        *)
(***************************************************************************)
RIFF == <<82, 73, 70, 70>>
WEBP == <<87, 69, 66, 80>>
VP8L == <<86, 80, 56, 76>>
VP8Lossy == <<86, 80, 56, 32>>      \* "VP8 "
VP8X == <<86, 80, 56, 88>>
ALPH == <<65, 76, 80, 72>>

\* header[lo:hi] of Go, on a 1-based sequence
Slice(header, lo, hi) == SubSeq(header, lo + 1, hi)

\* binary.LittleEndian.Uint32
Uint32LE(b) == b[1] + 256 * b[2] + 65536 * b[3] + 16777216 * b[4]

Dx(bounds) == bounds.Max.X - bounds.Min.X
Dy(bounds) == bounds.Max.Y - bounds.Min.Y

\* lines 103-119 with "VP8 " taken for the lossless tag as well
RECURSIVE WalkChunksAnyVP8(_, _)
WalkChunksAnyVP8(header, offset) ==
    IF offset + 8 > Len(header) THEN FALSE
    ELSE LET chunkID == Slice(header, offset, offset + 4) IN
         IF chunkID = VP8L \/ chunkID = VP8Lossy THEN TRUE
         ELSE LET chunkLen == Uint32LE(Slice(header, offset + 4, offset + 8))
                  advance  == 8 + chunkLen + (IF chunkLen % 2 # 0 THEN 1 ELSE 0)
              IN WalkChunksAnyVP8(header, offset + advance)

\* the loop of lines 103-119: TRUE when it sets isNativeLossless
RECURSIVE WalkChunks(_, _)
WalkChunks(header, offset) ==
    IF offset + 8 > Len(header) THEN FALSE
    ELSE LET chunkID == Slice(header, offset, offset + 4) IN
         IF chunkID = VP8L THEN TRUE
         ELSE IF chunkID = VP8Lossy THEN FALSE
         ELSE LET chunkLen == Uint32LE(Slice(header, offset + 4, offset + 8))
                  advance  == 8 + chunkLen + (IF chunkLen % 2 # 0 THEN 1 ELSE 0)
              IN WalkChunks(header, offset + advance)

\* float64(originalBytes*8) / float64(totalPixels) < k, k = 3.0 or 8.0. The
\* quotient is rounded to nearest and k is a float64, so for totalPixels
\* below 2^50 the comparison is that of the exact quotient.
BppBelow(originalBytes, totalPixels, k) == originalBytes * 8 < k * totalPixels

shouldEncodeLossless(format, originalBytes, bounds, header) ==
    LET totalPixels == Dx(bounds) * Dy(bounds)
        isNativeLossless ==
            IF format = "png" THEN TRUE
            ELSE IF format = "webp" /\ Len(header) >= 12
                    /\ Slice(header, 0, 4) = RIFF /\ Slice(header, 8, 12) = WEBP
                 THEN WalkChunks(header, 12)
                 ELSE FALSE
    IN IF totalPixels = 0 THEN FALSE
       ELSE IF format = "jpeg" THEN FALSE
       ELSE IF isNativeLossless /\ BppBelow(originalBytes, totalPixels, 8) THEN TRUE
       ELSE IF BppBelow(originalBytes, totalPixels, 3) THEN TRUE
       ELSE FALSE

(***************************************************************************)
(* Stream prefixes the detector is given.                                  *)
(***************************************************************************)
Chunk(tag, len, payload) == tag \o <<len, 0, 0, 0>> \o payload
Riff(chunks) == RIFF \o <<0, 1, 0, 0>> \o WEBP \o chunks
Headers ==
    { Riff(Chunk(VP8Lossy, 6, <<1, 2, 3, 4, 5, 6>>)),            \* lossy
      Riff(VP8Lossy),                                            \* lossy, cut after the tag
      Riff(Chunk(VP8L, 4, <<47, 0, 0, 0>>)),                     \* lossless
      Riff(Chunk(VP8X, 2, <<16, 0>>) \o Chunk(VP8L, 1, <<47>>)), \* extended, lossless
      Riff(Chunk(VP8X, 2, <<16, 0>>) \o Chunk(ALPH, 1, <<9, 0>>)
           \o Chunk(VP8Lossy, 2, <<1, 2>>)),                     \* extended, odd chunk, lossy
      Riff(Chunk(VP8X, 200, <<16, 0>>) \o Chunk(VP8L, 1, <<47>>)), \* first chunk runs past the prefix
      Riff(<<>>),                                                \* signature only
      <<137, 80, 78, 71, 13, 10, 26, 10>>,                       \* png
      <<255, 216, 255, 224, 0, 16, 74, 70, 73, 70, 0, 1, 1, 0, 0, 72>> }  \* jpeg

Rects ==
    {[Min |-> [X |-> x0, Y |-> 0], Max |-> [X |-> x1, Y |-> y1]] :
        x0 \in 0..1, x1 \in 1..MaxDim, y1 \in 0..MaxDim}

(***************************************************************************)
(* Specification of the quality estimator: the configuration and the       *)
(* effective bound are drawn at the start, then qualityBySize is called.   *)
(***************************************************************************)
QualityIdle == qm = 0 /\ qcalls = <<>>
LosslessIdle == larg = <<>> /\ lcall = <<>>
KeyIdle == rdrs = <<>> /\ keys = <<>>
ReaderIdle ==
    /\ self = <<>> /\ original = <<>> /\ pc = "idle" /\ gets = <<>> /\ streams = <<>>
    /\ orig = 0 /\ deferred = <<>> /\ pipe = <<>> /\ ret = <<>>

Estimate ==
    \E n \in Sizes :
        /\ qcalls' = (IF qcalls = <<>> THEN <<>> ELSE <<qcalls[Len(qcalls)]>>)
                     \o <<[n |-> n, m |-> qm, q |-> qualityBySize(n, qm)]>>
        /\ UNCHANGED <<conf, qm, losslessVars, keyVars, readerVars>>

InitQuality ==
    /\ conf \in QualityConfs
    /\ qm \in Sizes
    /\ qcalls = <<>>
    /\ LosslessIdle
    /\ KeyIdle
    /\ ReaderIdle

NextQuality == Estimate

SpecQuality == InitQuality /\ [][NextQuality]_vars

(***************************************************************************)
(* Specification of the lossless detector.                                 *)
(***************************************************************************)
LosslessInputs ==
    {[format |-> format, originalBytes |-> originalBytes, bounds |-> bounds, header |-> header] :
        format \in Formats, originalBytes \in 1..MaxBytes, bounds \in Rects, header \in Headers}

Detect ==
    /\ larg # <<>>
    /\ lcall = <<>>
    /\ lcall' = <<[format |-> larg[1].format, originalBytes |-> larg[1].originalBytes,
                   bounds |-> larg[1].bounds, header |-> larg[1].header,
                   result |-> shouldEncodeLossless(larg[1].format, larg[1].originalBytes,
                                                   larg[1].bounds, larg[1].header)]>>
    /\ UNCHANGED <<conf, qualityVars, larg, keyVars, readerVars>>

InitLossless ==
    /\ conf = AnyConf
    /\ QualityIdle
    /\ larg \in {<<i>> : i \in LosslessInputs}
    /\ lcall = <<>>
    /\ KeyIdle
    /\ ReaderIdle

NextLossless == Detect

SpecLossless == InitLossless /\ [][NextLossless]_vars

(***************************************************************************)
(* resizedFromOriginal (lines 36-50) and Key (lines 52-58).                *)
(***************************************************************************)
Digit == <<"0", "1", "2", "3", "4", "5", "6", "7", "8", "9">>

\* fmt's %d
RECURSIVE Itoa(_)
Itoa(n) ==
    IF n < 0 THEN "-" \o Itoa(0 - n)
    ELSE IF n < 10 THEN Digit[n + 1]
    ELSE Itoa(n \div 10) \o Digit[(n % 10) + 1]

\* the format suffix whatever the square flag
KeyWithoutSquare(r) ==
    LET baseKey == r.cacheKey \o "." \o Itoa(r.size)
    IN baseKey \o "." \o conf.CoverArtFormat

Key(r) ==
    LET baseKey == r.cacheKey \o "." \o Itoa(r.size)
    IN IF r.square THEN baseKey \o ".square"
       ELSE baseKey \o "." \o conf.CoverArtFormat

ArtIDs == {"al-1", "ar-7"}
\* Key() of the original artwork's reader, as the artwork store derives it
OriginalKeys == {"al-1.0", "ar-7.1f"}
KeySizes == {0 - 1, 0, 64, SmallSizeLimit}
Readers == 1..2

\* resizedFromOriginal: a.getArtworkReader fails, or the reader captures the
\* original's key
resizedFromOriginal ==
    \E i \in Readers, artID \in ArtIDs, size \in KeySizes, square \in BOOLEAN,
       found \in BOOLEAN, cacheKey \in OriginalKeys :
        /\ rdrs[i] = <<>>
        /\ rdrs' = [rdrs EXCEPT ![i] =
                       IF found
                       THEN <<[artID |-> artID, cacheKey |-> cacheKey,
                               size |-> size, square |-> square]>>
                       ELSE <<>>]
        /\ UNCHANGED <<conf, qualityVars, losslessVars, keys, readerVars>>

CallKey ==
    \E i \in Readers :
        /\ rdrs[i] # <<>>
        /\ keys' = [keys EXCEPT ![i] =
                       <<[key |-> Key(rdrs[i][1]), format |-> conf.CoverArtFormat]>>]
        /\ UNCHANGED <<conf, qualityVars, losslessVars, rdrs, readerVars>>

\* the configuration is reloaded with another output format
SetCoverArtFormat ==
    \E f \in Formats :
        /\ f # conf.CoverArtFormat
        /\ conf' = [conf EXCEPT !.CoverArtFormat = f]
        /\ UNCHANGED <<qualityVars, losslessVars, keyVars, readerVars>>

InitKey ==
    /\ conf \in FormatConfs
    /\ QualityIdle
    /\ LosslessIdle
    /\ rdrs = [i \in Readers |-> <<>>]
    /\ keys = [i \in Readers |-> <<>>]
    /\ ReaderIdle

NextKey == resizedFromOriginal \/ CallKey \/ SetCoverArtFormat

SpecKey == InitKey /\ [][NextKey]_vars

(***************************************************************************)
(* resizeImage (lines 163-236). src is what the stream holds: whether      *)
(* image.Decode accepts it and, if so, the detected format, the bounds, the *)
(* bytes the decoder consumed and the first bytes br.Peek returns. enc is  *)
(* what the selected encoder does when called: the bytes it leaves in buf  *)
(* and whether it reports an error. The result carries, besides the three  *)
(* returned values, the encoder call made (none: <<>>).                    *)
(***************************************************************************)
PeekSize == 512

\* line 180 with < for <=
SkipResizeStrict(sameFormat, originalSize, size) == sameFormat /\ originalSize < size

\* line 180
SkipResize(sameFormat, originalSize, size) == sameFormat /\ originalSize <= size

\* line 227 with > for >=
RegressionGuardStrict(sameFormat, bufLen, originalBytes) ==
    sameFormat /\ bufLen > originalBytes

\* line 227
RegressionGuard(sameFormat, bufLen, originalBytes) ==
    sameFormat /\ bufLen >= originalBytes

\* line 212 with max for min
EffectiveBoundMax(size, originalSize) == Max2(size, originalSize)

\* line 212: the second argument of qualityBySize
EffectiveBound(size, originalSize) == Min2(size, originalSize)

\* lines 231-235 with the encoder's error dropped
EncodeResultNoError(bufLen, originalSize, encErr) ==
    [resized |-> <<bufLen>>, origSize |-> originalSize, err |-> "nil"]

\* lines 231-235: the buffer is returned with the encoder's error, if any
EncodeResult(bufLen, originalSize, encErr) ==
    [resized |-> <<bufLen>>, origSize |-> originalSize,
     err |-> IF encErr THEN "encode" ELSE "nil"]

\* lines 200-225: the encoder called and its Quality option (png.Encode takes
\* none); args are the arguments of qualityBySize on the lossy path
SelectEncoder(encodeLossless, size, originalSize) ==
    IF encodeLossless
    THEN [codec |-> IF conf.CoverArtFormat = "jxl" THEN "jxl"
                    ELSE IF conf.CoverArtFormat = "png" THEN "png"
                    ELSE "webp",
          lossless |-> TRUE,
          quality |-> IF conf.CoverArtFormat = "png" THEN <<>> ELSE <<100>>,
          args |-> <<>>]
    ELSE LET m == EffectiveBound(size, originalSize)
         IN [codec |-> IF conf.CoverArtFormat \in {"webp", "jxl", "avif"}
                       THEN conf.CoverArtFormat
                       ELSE "jpeg",
             lossless |-> FALSE,
             quality |-> <<qualityBySize(size, m)>>,
             args |-> <<size, m>>]

resizeImage(src, size, square, enc) ==
    IF ~src.decodable
    THEN [resized |-> <<>>, origSize |-> 0, err |-> "decode", encoder |-> <<>>]
    ELSE
    LET header == SubSeq(src.header, 1, Min2(PeekSize, Len(src.header)))
        originalBytes == src.originalBytes
        imgSrcSameFormatAsServer == src.format = conf.CoverArtFormat
        bounds == src.bounds
        originalSize == Max2(bounds.Max.X, bounds.Max.Y)
    IN
    IF SkipResize(imgSrcSameFormatAsServer, originalSize, size)
    THEN [resized |-> <<>>, origSize |-> originalSize, err |-> "nil", encoder |-> <<>>]
    ELSE
    LET fitted == ~(originalSize <= size)
        padded == square /\ Dx(bounds) # Dy(bounds)
        encodeLossless == shouldEncodeLossless(src.format, originalBytes, bounds, header)
        call == SelectEncoder(encodeLossless, size, originalSize)
                @@ [fitted |-> fitted, padded |-> padded,
                    bufLen |-> enc.len, failed |-> enc.err]
    IN
    IF RegressionGuard(imgSrcSameFormatAsServer, enc.len, originalBytes)
    THEN [resized |-> <<>>, origSize |-> originalSize, err |-> "nil", encoder |-> <<call>>]
    ELSE EncodeResult(enc.len, originalSize, enc.err) @@ [encoder |-> <<call>>]

(***************************************************************************)
(* resizedArtworkReader.Reader (lines 64-87), in three steps: the first    *)
(* a.a.Get with the defer, resizeImage with the choice of the result, the  *)
(* second a.a.Get. A step that returns runs the deferred calls.            *)
(***************************************************************************)
ReaderSizes == (SmallSizeLimit - ReaderSpan)..(SmallSizeLimit + ReaderSpan)

\* the byte counts around the two bits-per-pixel thresholds of an image
BytesAround(pixels) ==
    {(3 * pixels) \div 8 - 1, (3 * pixels) \div 8, (3 * pixels) \div 8 + 1,
     pixels - 1, pixels}

ReaderHeaders(format) ==
    IF format = "webp"
    THEN {Riff(Chunk(VP8Lossy, 6, <<1, 2, 3, 4, 5, 6>>)), Riff(Chunk(VP8L, 4, <<47, 0, 0, 0>>))}
    ELSE IF format = "png" THEN {<<137, 80, 78, 71, 13, 10, 26, 10>>}
    ELSE {<<255, 216, 255, 224, 0, 16, 74, 70>>}

\* image.Decode's images have their Min corner at the origin
Originals ==
    {[decodable |-> FALSE]}
    \cup
    UNION {
        {[decodable |-> TRUE, format |-> f,
          bounds |-> [Min |-> [X |-> 0, Y |-> 0], Max |-> [X |-> w, Y |-> h]],
          originalBytes |-> b, header |-> hd] :
            b \in BytesAround(w * h), hd \in ReaderHeaders(f)} :
        f \in Formats, w \in ReaderSizes, h \in ReaderSizes}

\* an encoder that reports no error has written its output
EncoderOutcomes(src) ==
    {e \in [len : {0, src.originalBytes - 1, src.originalBytes, src.originalBytes + 1},
            err : BOOLEAN] : e.len > 0 \/ e.err}

NilReader == [kind |-> "nil", ref |-> 0]

\* line 70 as if the deferred call read orig when it runs
DeferredReceiverLate(atDefer, atReturn) == atReturn

\* line 70: defer evaluates the receiver orig when the defer statement runs
DeferredReceiver(atDefer, atReturn) == atDefer

\* the deferred calls run at a return
RunDeferred(strs, defs, origAtReturn) ==
    [s \in 1..Len(strs) |->
        [closes |-> strs[s].closes
                    + Cardinality({d \in 1..Len(defs) :
                                     DeferredReceiver(defs[d], origAtReturn) = s})]]

\* line 81 without the test of err
NeedsFallbackNilOnly(err, resized) == resized = <<>>

\* line 81
NeedsFallback(err, resized) == err # "nil" \/ resized = <<>>

\* lines 66-70
ReaderGet ==
    /\ pc = "start"
    /\ \E found \in BOOLEAN :
        IF found
        THEN /\ gets' = Append(gets, "ok")
             /\ streams' = Append(streams, [closes |-> 0])
             /\ orig' = Len(streams) + 1
             /\ deferred' = Append(deferred, Len(streams) + 1)
             /\ pc' = "fetched"
             /\ UNCHANGED ret
        ELSE /\ gets' = Append(gets, "err")
             /\ ret' = <<[reader |-> NilReader, disc |-> "", err |-> "lookup"]>>
             /\ streams' = RunDeferred(streams, deferred, orig)
             /\ pc' = "done"
             /\ UNCHANGED <<orig, deferred>>
    /\ UNCHANGED <<conf, qualityVars, losslessVars, keyVars, self, original, pipe>>

\* lines 72-81 and 86
ReaderResize ==
    /\ pc = "fetched"
    /\ \E enc \in (IF original[1].decodable THEN EncoderOutcomes(original[1])
                   ELSE {[len |-> 0, err |-> FALSE]}) :
        LET r == resizeImage(original[1], self[1].size, self[1].square, enc) IN
        /\ pipe' = <<r>>
        /\ IF NeedsFallback(r.err, r.resized)
           THEN /\ pc' = "fallback"
                /\ UNCHANGED <<streams, ret>>
           ELSE /\ ret' = <<[reader |-> [kind |-> "buffer", ref |-> r.resized[1]],
                             disc |-> self[1].artID \o "@" \o Itoa(self[1].size),
                             err |-> "nil"]>>
                /\ streams' = RunDeferred(streams, deferred, orig)
                /\ pc' = "done"
    /\ UNCHANGED <<conf, qualityVars, losslessVars, keyVars, self, original, gets, orig, deferred>>

\* lines 83-84
ReaderFallback ==
    /\ pc = "fallback"
    /\ \E found \in BOOLEAN :
        LET opened == IF found THEN Append(streams, [closes |-> 0]) ELSE streams
            again  == IF found THEN Len(streams) + 1 ELSE 0
        IN /\ gets' = Append(gets, IF found THEN "ok" ELSE "err")
           /\ orig' = again
           /\ ret' = <<[reader |-> IF found THEN [kind |-> "stream", ref |-> again]
                                   ELSE NilReader,
                        disc |-> "",
                        err |-> IF found THEN "nil" ELSE "lookup"]>>
           /\ streams' = RunDeferred(opened, deferred, again)
    /\ pc' = "done"
    /\ UNCHANGED <<conf, qualityVars, losslessVars, keyVars, self, original, deferred, pipe>>

Init ==
    /\ conf \in FormatConfs
    /\ QualityIdle
    /\ LosslessIdle
    /\ KeyIdle
    /\ self \in {<<[artID |-> "al-1", size |-> size, square |-> square]>> :
                    size \in ReaderSizes, square \in BOOLEAN}
    /\ original \in {<<o>> : o \in Originals}
    /\ pc = "start"
    /\ gets = <<>>
    /\ streams = <<>>
    /\ orig = 0
    /\ deferred = <<>>
    /\ pipe = <<>>
    /\ ret = <<>>

Next == ReaderGet \/ ReaderResize \/ ReaderFallback

Spec == Init /\ [][Next]_vars

(***************************************************************************)
(* Properties of the quality estimator (SpecQuality).                      *)
(***************************************************************************)
QCalls == {qcalls[i] : i \in 1..Len(qcalls)}

\* C5, as amended: for every requested size n >= 300, qualityBySize(n, n) is
\* the configured maximum quality.
C5_MaxQualityAtBound ==
    \A c \in QCalls :
        (c.n = c.m /\ c.n >= SmallSizeLimit) => c.q = conf.CoverArtMaxQuality

\* C5 as stated: for every requested size n, qualityBySize(n, n) is the
\* configured maximum quality.
C5_AsStated ==
    \A c \in QCalls : c.n = c.m => c.q = conf.CoverArtMaxQuality

C5_Witness ==
    \E c \in QCalls :
        /\ c.n = c.m /\ c.n > SmallSizeLimit
        /\ conf.CoverArtMinQuality < conf.CoverArtMaxQuality
        /\ c.q = conf.CoverArtMaxQuality

\* C6: for a fixed effective bound m > 300 and minQuality <= maxQuality,
\* qualityBySize(n, m) is non-decreasing in n over 300..m, truncation included.
C6_Monotone ==
    (/\ Len(qcalls) = 2
     /\ qm > SmallSizeLimit
     /\ conf.CoverArtMinQuality <= conf.CoverArtMaxQuality
     /\ SmallSizeLimit <= qcalls[1].n
     /\ qcalls[1].n <= qcalls[2].n
     /\ qcalls[2].n <= qm)
    => qcalls[1].q <= qcalls[2].q

C6_Witness ==
    /\ Len(qcalls) = 2
    /\ SmallSizeLimit < qcalls[1].n
    /\ qcalls[1].n < qcalls[2].n
    /\ qcalls[2].n < qm
    /\ qcalls[1].q < qcalls[2].q
    /\ qcalls[2].q < conf.CoverArtMaxQuality

(***************************************************************************)
(* Properties of the lossless detector (SpecLossless).                     *)
(***************************************************************************)
\* the 12-byte RIFF/WEBP signature followed by the tag "VP8 "
IsLossyWebpHeader(header) ==
    /\ Len(header) >= 16
    /\ Slice(header, 0, 4) = RIFF
    /\ Slice(header, 8, 12) = WEBP
    /\ Slice(header, 12, 16) = VP8Lossy

LossyWebpCalls ==
    {c \in {lcall[i] : i \in 1..Len(lcall)} :
        c.format = "webp" /\ IsLossyWebpHeader(c.header)}

\* C7, as amended: for a RIFF/WEBP header whose first chunk tag is "VP8 ",
\* shouldEncodeLossless with format "webp" returns true exactly when the image
\* has pixels and fewer than 3.0 bits per pixel, and false otherwise.
C7_LossyWebpLosslessOnlyWhenSparse ==
    \A c \in LossyWebpCalls :
        c.result = (/\ Dx(c.bounds) * Dy(c.bounds) # 0
                    /\ c.originalBytes * 8 < 3 * (Dx(c.bounds) * Dy(c.bounds)))

\* C7 as stated: it returns false for every byte count and every bounds.
C7_AsStated == \A c \in LossyWebpCalls : c.result = FALSE

C7_Witness ==
    \E c \in LossyWebpCalls :
        /\ Dx(c.bounds) * Dy(c.bounds) # 0
        /\ c.originalBytes * 8 >= 3 * (Dx(c.bounds) * Dy(c.bounds))
        /\ c.originalBytes * 8 < 8 * (Dx(c.bounds) * Dy(c.bounds))
        /\ c.result = FALSE

(***************************************************************************)
(* Properties of the cache key (SpecKey).                                  *)
(***************************************************************************)
Keyed == {i \in Readers : rdrs[i] # <<>> /\ keys[i] # <<>>}

\* C4: Key() is "{originalKey}.{size}.square" when square and
\* "{originalKey}.{size}.{outputFormat}" otherwise, with the format read when
\* Key() is called; readers equal in (original key, size, square, format) have
\* equal keys, and readers that differ only in the square flag have different
\* keys, for every output format.
C4_KeyDeterminedAndSquareDistinct ==
    \A i \in Keyed :
        LET r == rdrs[i][1]
            k == keys[i][1]
        IN /\ k.key = r.cacheKey \o "." \o Itoa(r.size) \o "."
                        \o (IF r.square THEN "square" ELSE k.format)
           /\ \A j \in Keyed :
                LET r2 == rdrs[j][1]
                    k2 == keys[j][1]
                IN (r2.cacheKey = r.cacheKey /\ r2.size = r.size /\ k2.format = k.format)
                   => ((r2.square = r.square) <=> (k2.key = k.key))

C4_Witness ==
    /\ Keyed = Readers
    /\ rdrs[1][1].cacheKey = rdrs[2][1].cacheKey
    /\ rdrs[1][1].size = rdrs[2][1].size
    /\ rdrs[1][1].size = SmallSizeLimit
    /\ rdrs[1][1].square /\ ~rdrs[2][1].square
    /\ keys[1][1].format = keys[2][1].format
    /\ keys[1][1].key = "al-1.0.300.square"
    /\ keys[2][1].key = "al-1.0.300.avif"

(***************************************************************************)
(* Properties of resizeImage and Reader (Spec).                            *)
(***************************************************************************)
Decoded == pipe # <<>> /\ original[1].decodable
SameFormat == original[1].format = conf.CoverArtFormat
Width == Dx(original[1].bounds)
Height == Dy(original[1].bounds)
LargestDimension == IF Width > Height THEN Width ELSE Height
Encoded == Decoded /\ pipe[1].encoder # <<>>

\* C1: a decodable source in the configured output format whose largest
\* dimension is <= the requested size yields the no-op signal (nil buffer, the
\* largest dimension, no error) and no encoder is called, square or not.
C1_NoOpWhenSameFormatAndFits ==
    (Decoded /\ SameFormat /\ LargestDimension <= self[1].size)
    => /\ pipe[1].resized = <<>>
       /\ pipe[1].origSize = LargestDimension
       /\ pipe[1].err = "nil"
       /\ pipe[1].encoder = <<>>

C1_Witness ==
    /\ Decoded /\ SameFormat
    /\ LargestDimension = self[1].size
    /\ self[1].square /\ Width # Height
    /\ pipe[1].resized = <<>> /\ pipe[1].encoder = <<>>

\* C2: when the source format is the configured one and the encoded buffer is
\* no shorter than the bytes consumed decoding the original, the result is the
\* no-op signal (nil buffer, nil error); a buffer returned for a same-format
\* source is strictly smaller than the original byte count.
C2_NoRegressionForSameFormat ==
    /\ (Encoded /\ SameFormat
        /\ pipe[1].encoder[1].bufLen >= original[1].originalBytes)
       => (pipe[1].resized = <<>> /\ pipe[1].err = "nil")
    /\ (Decoded /\ SameFormat /\ pipe[1].resized # <<>>)
       => pipe[1].resized[1] < original[1].originalBytes

C2_Witness ==
    /\ Encoded /\ SameFormat
    /\ ~pipe[1].encoder[1].failed
    /\ pipe[1].encoder[1].bufLen = original[1].originalBytes
    /\ pipe[1].resized = <<>>

\* C3: once the first fetch succeeds, a pipeline error or no-op leads to a
\* second fetch whose stream is returned as it is, with an empty discriminator;
\* the pipeline's error is never returned: Reader returns an error only when a
\* fetch, the first or the second, fails.
C3_FallbackToOriginal ==
    pc = "done"
    => /\ (ret[1].err # "nil") => (ret[1].err = "lookup" /\ gets[Len(gets)] = "err")
       /\ (gets[1] = "ok" /\ (pipe[1].err # "nil" \/ pipe[1].resized = <<>>))
          => /\ Len(gets) = 2
             /\ ret[1].disc = ""
             /\ gets[2] = "ok"
                => (ret[1].reader = [kind |-> "stream", ref |-> 2] /\ ret[1].err = "nil")

C3_Witness ==
    /\ pc = "done"
    /\ gets = <<"ok", "ok">>
    /\ pipe[1].err = "encode"
    /\ pipe[1].resized # <<>>
    /\ ret[1] = [reader |-> [kind |-> "stream", ref |-> 2], disc |-> "", err |-> "nil"]

\* C8, as amended: when the encoder reports an error, resizeImage returns that
\* error with the buffer and the original's largest dimension, unless the
\* source format is the configured one and the buffer is no shorter than the
\* original byte count: then it returns the no-op signal.
C8_EncodeErrorReturnedUnlessGuarded ==
    (Encoded /\ pipe[1].encoder[1].failed)
    => IF SameFormat /\ pipe[1].encoder[1].bufLen >= original[1].originalBytes
       THEN /\ pipe[1].resized = <<>>
            /\ pipe[1].err = "nil"
            /\ pipe[1].origSize = LargestDimension
       ELSE /\ pipe[1].err = "encode"
            /\ pipe[1].resized = <<pipe[1].encoder[1].bufLen>>
            /\ pipe[1].origSize = LargestDimension

\* C8 as stated: an encoder error is always returned with the buffer and the
\* largest dimension, never turned into the no-op signal.
C8_AsStated ==
    (Encoded /\ pipe[1].encoder[1].failed)
    => /\ pipe[1].err = "encode"
       /\ pipe[1].resized = <<pipe[1].encoder[1].bufLen>>
       /\ pipe[1].origSize = LargestDimension

C8_Witness ==
    /\ Encoded /\ pipe[1].encoder[1].failed
    /\ SameFormat
    /\ pipe[1].encoder[1].bufLen > 0
    /\ pipe[1].err = "encode"
    /\ pipe[1].resized = <<pipe[1].encoder[1].bufLen>>

\* C9: when Reader has returned, every stream it opened and did not return has
\* been closed exactly once, the first one also when orig was reassigned by the
\* fallback, and the stream it returned has not been closed.
C9_StreamsClosedOnce ==
    /\ \A s \in 1..Len(streams) : streams[s].closes <= 1
    /\ pc = "done"
       => \A s \in 1..Len(streams) :
            streams[s].closes =
                IF ret[1].reader = [kind |-> "stream", ref |-> s] THEN 0 ELSE 1

C9_Witness ==
    /\ pc = "done"
    /\ Len(streams) = 2
    /\ ret[1].reader = [kind |-> "stream", ref |-> 2]
    /\ streams[1].closes = 1
    /\ streams[2].closes = 0

\* C10: on the lossy path the quality given to the encoder is the configured
\* minimum when the requested size is < 300 and the configured maximum
\* otherwise; the second argument of qualityBySize never exceeds the first.
C10_LossyQualityIsMinOrMax ==
    (Encoded /\ ~pipe[1].encoder[1].lossless)
    => /\ pipe[1].encoder[1].quality =
            <<IF self[1].size < SmallSizeLimit THEN conf.CoverArtMinQuality
              ELSE conf.CoverArtMaxQuality>>
       /\ pipe[1].encoder[1].args[2] <= pipe[1].encoder[1].args[1]

C10_Witness ==
    /\ Encoded /\ ~pipe[1].encoder[1].lossless
    /\ self[1].size >= SmallSizeLimit
    /\ LargestDimension > self[1].size
    /\ conf.CoverArtMinQuality < conf.CoverArtMaxQuality
    /\ pipe[1].encoder[1].quality = <<conf.CoverArtMaxQuality>>

====
